---------------------------- MODULE Spec2Model ----------------------------
(***************************************************************************)
(* Model of the InsertTimestamp action (src/src/plugin.ts): the key-press  *)
(* handler onKeyDown, the formatter getFormattedTimestamp and the          *)
(* platform-dispatching clipboard insert copyPasteText.                    *)
(*                                                                         *)
(* A text is a sequence of pieces.  A piece is one character ("4", "-",    *)
(* "$") or, for words that contain only letters, the whole word            *)
(* ("April"); the escaping and shell-parsing operators treat a word as an  *)
(* ordinary character.                                                     *)
(***************************************************************************)
EXTENDS Integers, Sequences, FiniteSets, TLC

\* ------------------------------------------------------------ bounds
\* Longest text given to the escaping routines.
MaxLen == 3
\* Number of key presses the host delivers.
MaxPresses == 2

\* ------------------------------------------------------------ characters
\* The backtick (grave accent, U+0060), written by name.
BQ == "<backtick>"
DL == "$"
DQ == "\""
SQ == "'"
BS == "\\"
Alphabet == {BQ, DL, DQ, SQ, BS, "a"}

RECURSIVE SeqsUpTo(_, _)
SeqsUpTo(S, n) ==
    IF n = 0 THEN {<<>>}
    ELSE LET shorter == SeqsUpTo(S, n - 1)
         IN  shorter \cup {Append(s, c) : s \in {t \in shorter : Len(t) = n - 1}, c \in S}

\* s.replace(/c/g, r): every occurrence of the character c becomes the text r.
RECURSIVE ReplaceAll(_, _, _)
ReplaceAll(s, c, r) ==
    IF s = <<>> THEN <<>>
    ELSE (IF Head(s) = c THEN r ELSE <<Head(s)>>) \o ReplaceAll(Tail(s), c, r)

\* needle occurs in hay as a contiguous run of pieces.
Contains(hay, needle) ==
    \E k \in 0..(Len(hay) - Len(needle)) :
        \A j \in 1..Len(needle) : hay[k + j] = needle[j]

\* ------------------------------------------------------------ Date
DigitChars == <<"0", "1", "2", "3", "4", "5", "6", "7", "8", "9">>

\* String(n) for a non-negative integer.
RECURSIVE String(_)
String(n) ==
    IF n < 10 THEN <<DigitChars[n + 1]>>
    ELSE String(n \div 10) \o <<DigitChars[(n % 10) + 1]>>

padStart(s, width, fill) ==
    IF Len(s) >= width THEN s
    ELSE [k \in 1..(width - Len(s)) |-> fill] \o s

MonthNames == <<"January", "February", "March", "April", "May", "June", "July",
                "August", "September", "October", "November", "December">>
WeekdayNames == <<"Sunday", "Monday", "Tuesday", "Wednesday", "Thursday",
                  "Friday", "Saturday">>

IsLeap(y) == (y % 4 = 0 /\ y % 100 # 0) \/ y % 400 = 0

\* month is 0-indexed, as in Date.getMonth().
DaysInMonth(y, month) ==
    IF month = 1 THEN (IF IsLeap(y) THEN 29 ELSE 28)
    ELSE IF month \in {3, 5, 8, 10} THEN 30 ELSE 31

\* Date.getDay(): 0 = Sunday (Gregorian calendar, year >= 1).
MonthOffsets == <<0, 3, 2, 5, 0, 3, 5, 1, 4, 6, 2, 4>>
getDay(d) ==
    LET y == IF d.month < 2 THEN d.year - 1 ELSE d.year
    IN  (y + (y \div 4) - (y \div 100) + (y \div 400)
           + MonthOffsets[d.month + 1] + d.date) % 7

\* The instant d, given by its local fields and its offset to UTC in hours
\* (UTC = local + d.utcOffset), read in UTC.
toUTC(d) ==
    LET h     == d.hours + d.utcOffset
        roll  == h >= 24
        day   == IF roll THEN d.date + 1 ELSE d.date
        mroll == day > DaysInMonth(d.year, d.month)
        mon   == IF mroll THEN d.month + 1 ELSE d.month
        yroll == mon > 11
    IN  [d EXCEPT !.hours = IF roll THEN h - 24 ELSE h,
                  !.date  = IF mroll THEN 1 ELSE day,
                  !.month = IF yroll THEN 0 ELSE mon,
                  !.year  = IF yroll THEN d.year + 1 ELSE d.year,
                  !.utcOffset = 0]

\* Date.prototype.toLocaleDateString() in the en-US locale: M/D/YYYY.
toLocaleDateString(d) ==
    String(d.month + 1) \o <<"/">> \o String(d.date) \o <<"/">> \o String(d.year)

Hour12(d) == IF d.hours % 12 = 0 THEN 12 ELSE d.hours % 12
DayPeriod(d) == IF d.hours < 12 THEN "AM" ELSE "PM"

\* Date.prototype.toLocaleTimeString() in the en-US locale: h:mm:ss AM/PM.
toLocaleTimeString(d) ==
    String(Hour12(d)) \o <<":">> \o padStart(String(d.minutes), 2, "0") \o <<":">>
        \o padStart(String(d.seconds), 2, "0") \o <<" ", DayPeriod(d)>>

\* toLocaleString('en-US', {weekday: 'long', year: 'numeric', month: 'long',
\* day: 'numeric', hour: 'numeric', minute: '2-digit', second: '2-digit'}).
toLocaleStringLong(d) ==
    <<WeekdayNames[getDay(d) + 1], ",", " ", MonthNames[d.month + 1], " ">>
        \o String(d.date) \o <<",", " ">> \o String(d.year) \o <<" ", "at", " ">>
        \o toLocaleTimeString(d)

\* Date.prototype.toISOString(): YYYY-MM-DDTHH:mm:ss.sssZ in UTC.
toISOString(d) ==
    LET u == toUTC(d)
    IN  padStart(String(u.year), 4, "0") \o <<"-">>
            \o padStart(String(u.month + 1), 2, "0") \o <<"-">>
            \o padStart(String(u.date), 2, "0") \o <<"T">>
            \o padStart(String(u.hours), 2, "0") \o <<":">>
            \o padStart(String(u.minutes), 2, "0") \o <<":">>
            \o padStart(String(u.seconds), 2, "0") \o <<".">>
            \o padStart(String(u.ms), 3, "0") \o <<"Z">>

\* The "custom" case of getFormattedTimestamp.
customTimestamp(now) ==
    LET year    == String(now.year)
        month   == padStart(String(now.month + 1), 2, "0")
        day     == padStart(String(now.date), 2, "0")
        hours   == padStart(String(now.hours), 2, "0")
        minutes == padStart(String(now.minutes), 2, "0")
        seconds == padStart(String(now.seconds), 2, "0")
    IN  year \o <<"-">> \o month \o <<"-">> \o day \o <<" ">>
            \o hours \o <<"-">> \o minutes \o <<"-">> \o seconds

\* getFormattedTimestamp with the default branch answering in ISO form.
getFormattedTimestampIsoDefault(format, now) ==
    CASE format = "short"  -> toLocaleDateString(now)
      [] format = "long"   -> toLocaleStringLong(now)
      [] format = "time"   -> toLocaleTimeString(now)
      [] format = "iso"    -> toISOString(now)
      [] format = "custom" -> customTimestamp(now)
      [] OTHER             -> toISOString(now)

\* getFormattedTimestamp(format), with the instant "new Date()" as a parameter.
getFormattedTimestamp(format, now) ==
    CASE format = "short"  -> toLocaleDateString(now)
      [] format = "long"   -> toLocaleStringLong(now)
      [] format = "time"   -> toLocaleTimeString(now)
      [] format = "iso"    -> toISOString(now)
      [] format = "custom" -> customTimestamp(now)
      [] OTHER             -> toLocaleDateString(now)

\* ------------------------------------------------------------ settings
\* ev.payload.settings: the format field is absent (NoFormat) or a string.
NoFormat == "<absent>"
KnownFormats == {"short", "long", "time", "iso", "custom"}
SettingsSet == [format : KnownFormats \cup {NoFormat, "", "default", "SHORT", "bogus"}]

\* ev.payload.settings?.format || "default"
formatOf(s) == IF s.format = NoFormat \/ s.format = "" THEN "default" ELSE s.format


\* ------------------------------------------------------------ escaping
\* The Windows branch's escapedText: five replacements, in this order.
escapeWindows(text) ==
    LET a == ReplaceAll(text, BQ, <<BQ, BQ>>)
        b == ReplaceAll(a, DL, <<BQ, DL>>)
        c == ReplaceAll(b, DQ, <<BQ, DQ>>)
        d == ReplaceAll(c, SQ, <<SQ, SQ>>)
    IN  ReplaceAll(d, BS, <<BS, BS>>)

\* text.replace(/"/g, '\\"') of the macOS and Linux branches.
escapePosix(text) == ReplaceAll(text, DQ, <<BS, DQ>>)

\* PowerShell reads the single-quoted literal whose opening quote precedes
\* full[k]: a doubled quote is one quote, a single quote ends the literal, and
\* every other character stands for itself.  closed is the position of the
\* ending quote in full, 0 when the literal is not ended; nothing is substituted.
RECURSIVE psSingleQuoted(_, _, _)
psSingleQuoted(full, k, value) ==
    IF k > Len(full) THEN [value |-> value, closed |-> 0, subst |-> FALSE]
    ELSE IF full[k] = SQ
         THEN IF k < Len(full) /\ full[k + 1] = SQ
              THEN psSingleQuoted(full, k + 2, Append(value, SQ))
              ELSE [value |-> value, closed |-> k, subst |-> FALSE]
         ELSE psSingleQuoted(full, k + 1, Append(value, full[k]))

\* Set-Clipboard -Value '<escaped>': the value PowerShell gives the literal.
psLiteral(escaped) == psSingleQuoted(escaped \o <<SQ>>, 1, <<>>)

\* After a "$" inside double quotes, these characters start no expansion.
NoExpansionAfterDollar == {DQ, BS, BQ, SQ, " ", "/", ":", ",", "."}

\* A POSIX shell reads the double-quoted word whose opening quote precedes
\* full[k]: a backslash quotes a following $, backtick, " or \ and is otherwise
\* kept; an unquoted " ends the word; a backtick starts a command substitution
\* and a "$" before a name an expansion (subst), whose output is not modelled.
RECURSIVE shDoubleQuoted(_, _, _)
shDoubleQuoted(full, k, acc) ==
    IF k > Len(full) THEN acc
    ELSE LET c == full[k] IN
         IF c = DQ THEN [acc EXCEPT !.closed = k]
         ELSE IF c = BS
              THEN IF k < Len(full) /\ full[k + 1] \in {DL, BQ, DQ, BS}
                   THEN shDoubleQuoted(full, k + 2,
                            [acc EXCEPT !.value = Append(@, full[k + 1])])
                   ELSE shDoubleQuoted(full, k + 1, [acc EXCEPT !.value = Append(@, BS)])
         ELSE IF c = BQ THEN [acc EXCEPT !.subst = TRUE]
         ELSE IF c = DL
              THEN IF k < Len(full) /\ full[k + 1] \notin NoExpansionAfterDollar
                   THEN shDoubleQuoted(full, k + 2, [acc EXCEPT !.subst = TRUE])
                   ELSE shDoubleQuoted(full, k + 1, [acc EXCEPT !.value = Append(@, DL)])
         ELSE shDoubleQuoted(full, k + 1, [acc EXCEPT !.value = Append(@, c)])

\* echo -n "<escaped>" | ...: the word the shell hands to echo.
shWord(escaped) ==
    shDoubleQuoted(escaped \o <<DQ>>, 1, [value |-> <<>>, closed |-> 0, subst |-> FALSE])


\* ------------------------------------------------------------ external commands
Platforms == {"win32", "darwin", "linux"}

\* The name the error messages of copyPasteText give the platform.
platformName(plat) ==
    CASE plat = "win32"  -> "Windows"
      [] plat = "darwin" -> "macOS"
      [] OTHER           -> "Linux"

\* The command line of the Windows branch.
windowsCommand(escapedText) ==
    <<"powershell", " -command ", DQ, "Set-Clipboard -Value ", SQ>> \o escapedText
        \o <<SQ, "; Add-Type -AssemblyName System.Windows.Forms; ",
             "[System.Windows.Forms.SendKeys]::SendWait(", SQ, "^v", SQ, ")", DQ>>

\* Branches that run the clipboard command a second time.
commandsForRetry(plat, text) ==
    LET echo == <<"echo -n ", DQ>> \o escapePosix(text) \o <<DQ, " | ">>
        xclip == [util |-> "xclip", does |-> {"copy"},
                  line |-> echo \o <<"xclip", " -selection clipboard">>]
    IN  CASE plat = "win32" ->
               <<[util |-> "powershell", does |-> {"copy", "paste"},
                  line |-> windowsCommand(escapeWindows(text))]>>
          [] plat = "darwin" ->
               <<[util |-> "pbcopy", does |-> {"copy"}, line |-> echo \o <<"pbcopy">>],
                 [util |-> "pbcopy", does |-> {"copy"}, line |-> echo \o <<"pbcopy">>],
                 [util |-> "osascript", does |-> {"paste"},
                  line |-> <<"osascript", " -e ", SQ,
                             "tell application ", DQ, "System Events", DQ,
                             " to keystroke ", DQ, "v", DQ, " using command down", SQ>>]>>
          [] OTHER ->
               <<xclip, xclip,
                 [util |-> "xdotool", does |-> {"paste"}, line |-> <<"xdotool", " key ctrl+v">>]>>

\* The external commands copyPasteText runs for text, in order.  util is the
\* utility that does the work, does what it does to the clipboard and the
\* focused application, line the command line given to exec.
commandsFor(plat, text) ==
    LET echo == <<"echo -n ", DQ>> \o escapePosix(text) \o <<DQ, " | ">>
    IN  CASE plat = "win32" ->
               <<[util |-> "powershell", does |-> {"copy", "paste"},
                  line |-> windowsCommand(escapeWindows(text))]>>
          [] plat = "darwin" ->
               <<[util |-> "pbcopy", does |-> {"copy"}, line |-> echo \o <<"pbcopy">>],
                 [util |-> "osascript", does |-> {"paste"},
                  line |-> <<"osascript", " -e ", SQ,
                             "tell application ", DQ, "System Events", DQ,
                             " to keystroke ", DQ, "v", DQ, " using command down", SQ>>]>>
          [] OTHER ->
               <<[util |-> "xclip", does |-> {"copy"},
                  line |-> echo \o <<"xclip", " -selection clipboard">>],
                 [util |-> "xdotool", does |-> {"paste"}, line |-> <<"xdotool", " key ctrl+v">>]>>

\* How an external process can end.
Outcomes == {"ok", "nonzero", "notfound"}
Failures == Outcomes \ {"ok"}

\* `${error}` for the error execAsync rejects with: exec's message is
\* "Command failed: " followed by the command line and the process's stderr.
execError(cmd, outcome) ==
    <<"Error: ", "Command failed: ">> \o cmd.line
        \o <<"\n", IF outcome = "notfound" THEN "command not found" ELSE "exit status 1">>

\* An await that resumes the caller whatever the outcome.
awaitIgnoresFailure(outcome) == TRUE

\* await execAsync(...): the caller continues in line when the process exits
\* without error, and is thrown into its catch block otherwise.
awaitReturns(outcome) == outcome = "ok"

\* copyPasteText that returns once its first command has exited.
returnsAfterFirst(k, cmds) == k >= 1

\* copyPasteText returns once the k-th, last, command of its branch has exited.
copyPasteReturns(k, cmds) == k >= Len(cmds)

\* A clipboard command that leaves the clipboard as it was.
clipboardKept(plat, text, clip) == clip

\* The clipboard after the platform's clipboard command has run for text: the
\* value the shell (PowerShell on Windows) gives the quoted text.
clipboardWritten(plat, text, clip) ==
    IF plat = "win32" THEN psLiteral(escapeWindows(text)).value
    ELSE shWord(escapePosix(text)).value

\* The catch block of each platform branch: the entry it logs and the message
\* of the one error it throws.
catchBranch(plat, error) ==
    IF plat \in {"win32", "darwin"}
    THEN LET msg == <<"Error inserting timestamp on ", platformName(plat), ": ">> \o error
         IN  [entry |-> [level |-> "error", msg |-> msg], thrown |-> msg]
    ELSE [entry  |-> [level |-> "warn",
                      msg |-> <<"Linux", " support requires ", "xclip", "/", "xdotool">>],
          thrown |-> <<"Linux", " support requires ", "xclip", "/", "xdotool",
                       ". Please install these utilities and try again.">>]

\* A handler whose catch block logs and throws the error on to the host.
keyDownRethrow(error) ==
    [entry  |-> [level |-> "error", msg |-> <<"Error getting timestamp: ">> \o error],
     result |-> "rejected"]

\* The catch block of onKeyDown: logs `${error}`; the promise then resolves.
keyDownCatch(error) ==
    [entry  |-> [level |-> "error", msg |-> <<"Error getting timestamp: ">> \o error],
     result |-> "resolved"]

\* What copyPasteText logs before its first command is started.
branchInfoLog(plat, text) ==
    IF plat = "win32"
    THEN <<[level |-> "info", msg |-> <<"Inserting timestamp on ", "Windows">>],
           [level |-> "info", msg |-> <<"Escaped text: ">> \o escapeWindows(text)],
           [level |-> "info",
            msg |-> <<"Running command: ">> \o windowsCommand(escapeWindows(text))]>>
    ELSE <<>>


\* ------------------------------------------------------------ state
VARIABLES
    platform,   \* process.platform
    settings,   \* the settings object the host hands over with each key press
    pc,         \* per key press: where its onKeyDown invocation stands
    now,        \* per key press: the instant "new Date()" gave
    text,       \* per key press: the timestamp handed to copyPasteText
    started,    \* per key press: the external commands started, in order
    exited,     \* per key press: the commands that have exited, with the outcome
    clipboard,  \* the system clipboard
    pasted,     \* per key press: what its paste keystroke put into the focused application
    okCalls,    \* per key press: the number of calls of ev.action.showOk
    log,        \* per key press: the entries given to streamdeck.logger
    thrown,     \* per key press: the errors copyPasteText has thrown
    result,     \* per key press: the state of the promise onKeyDown returned
    escText,    \* the text given to an escaping routine
    escOp,      \* the escaping routine applied to escText
    escEscaped, \* the escaped text
    escValue,   \* what the shell reads back from the escaped text
    fmtNow,     \* the instant given to getFormattedTimestamp
    fmtFormat,  \* the format given to getFormattedTimestamp
    fmtOut      \* the timestamp it returned

procVars == <<platform, settings, pc, now, text, started, exited, clipboard, pasted,
              okCalls, log, thrown, result>>
escVars == <<escText, escOp, escEscaped, escValue>>
fmtVars == <<fmtNow, fmtFormat, fmtOut>>
vars == <<procVars, escVars, fmtVars>>

Presses == 1..MaxPresses
None == <<"<none>">>
NoDate == [year |-> 0, month |-> 0, date |-> 0, hours |-> 0, minutes |-> 0,
           seconds |-> 0, ms |-> 0, utcOffset |-> 0]

\* The instants of the key presses: local time five hours behind UTC.
Instants ==
    {[year |-> 2024, month |-> 3, date |-> 5, hours |-> 13, minutes |-> 30,
      seconds |-> 0, ms |-> 0, utcOffset |-> 5],
     [year |-> 2024, month |-> 11, date |-> 31, hours |-> 23, minutes |-> 59,
      seconds |-> 59, ms |-> 999, utcOffset |-> 5]}

ProcIdle ==
    /\ pc = [i \in Presses |-> "idle"]
    /\ now = [i \in Presses |-> NoDate]
    /\ text = [i \in Presses |-> <<>>]
    /\ started = [i \in Presses |-> <<>>]
    /\ exited = [i \in Presses |-> <<>>]
    /\ clipboard = <<"previous clipboard">>
    /\ pasted = [i \in Presses |-> None]
    /\ okCalls = [i \in Presses |-> 0]
    /\ log = [i \in Presses |-> <<>>]
    /\ thrown = [i \in Presses |-> <<>>]
    /\ result = [i \in Presses |-> "none"]

EscIdle ==
    /\ escOp = "none"
    /\ escEscaped = <<>>
    /\ escValue = [value |-> <<>>, closed |-> 0, subst |-> FALSE]

FmtIdle ==
    /\ fmtFormat = "none"
    /\ fmtOut = <<>>

\* ------------------------------------------------------------ key presses
Init ==
    /\ platform \in Platforms
    /\ settings \in SettingsSet
    /\ ProcIdle
    /\ escText = <<>> /\ EscIdle
    /\ fmtNow = NoDate /\ FmtIdle

Running(i) == Len(started[i]) > Len(exited[i])

\* onKeyDown up to its first suspension: the format is read, the timestamp
\* made and logged, and copyPasteText starts the first command of its branch.
KeyDown(i) ==
    /\ pc[i] = "idle"
    /\ \A j \in Presses : j < i => pc[j] # "idle"
    /\ \E d \in Instants :
        LET format    == formatOf(settings)
            timestamp == getFormattedTimestamp(format, d)
        IN  /\ now' = [now EXCEPT ![i] = d]
            /\ text' = [text EXCEPT ![i] = timestamp]
            /\ log' = [log EXCEPT ![i] =
                   <<[level |-> "info",
                      msg |-> <<"Got timestamp: ">> \o timestamp
                                 \o <<" (format: ", format, ")">>]>>
                   \o branchInfoLog(platform, timestamp)]
            /\ started' = [started EXCEPT ![i] = <<commandsFor(platform, timestamp)[1]>>]
    /\ pc' = [pc EXCEPT ![i] = "exec"]
    /\ result' = [result EXCEPT ![i] = "pending"]
    /\ UNCHANGED <<platform, settings, exited, clipboard, pasted, okCalls, thrown>>
    /\ UNCHANGED <<escVars, fmtVars>>

\* The running command of press i exits with outcome, leaving the clipboard
\* as clip; the invocation runs on to its next suspension or to its end.
execSettles(i, outcome, clip) ==
    LET cmds == commandsFor(platform, text[i])
        k    == Len(started[i])
        cmd  == started[i][k]
    IN  /\ exited' = [exited EXCEPT ![i] = Append(@, [cmd |-> cmd, outcome |-> outcome])]
        /\ clipboard' = clip
        /\ pasted' = IF outcome = "ok" /\ "paste" \in cmd.does
                     THEN [pasted EXCEPT ![i] = clip] ELSE pasted
        /\ IF awaitReturns(outcome)
           THEN IF copyPasteReturns(k, cmds)
                THEN \* back in onKeyDown: await ev.action.showOk()
                     /\ okCalls' = [okCalls EXCEPT ![i] = @ + 1]
                     /\ pc' = [pc EXCEPT ![i] = "showOk"]
                     /\ UNCHANGED <<started, log, thrown, result>>
                ELSE /\ started' = [started EXCEPT ![i] = Append(@, cmds[k + 1])]
                     /\ UNCHANGED <<pc, okCalls, log, thrown, result>>
           ELSE LET branch == catchBranch(platform, execError(cmd, outcome))
                    host   == keyDownCatch(<<"Error: ">> \o branch.thrown)
                IN  /\ thrown' = [thrown EXCEPT ![i] = Append(@, branch.thrown)]
                    /\ log' = [log EXCEPT ![i] = @ \o <<branch.entry, host.entry>>]
                    /\ result' = [result EXCEPT ![i] = host.result]
                    /\ pc' = [pc EXCEPT ![i] = "done"]
                    /\ UNCHANGED <<started, okCalls>>
        /\ UNCHANGED <<platform, settings, now, text>>
        /\ UNCHANGED <<escVars, fmtVars>>

\* The running command exits without error.
ExecExitsOk(i) ==
    /\ pc[i] = "exec" /\ Running(i)
    /\ LET cmd == started[i][Len(started[i])]
       IN  execSettles(i, "ok",
               IF "copy" \in cmd.does
               THEN clipboardWritten(platform, text[i], clipboard) ELSE clipboard)

\* The running command is not found or exits non-zero.  The PowerShell
\* command may by then have set the clipboard.
ExecFails(i) ==
    /\ pc[i] = "exec" /\ Running(i)
    /\ \E outcome \in Failures :
           \E clip \in {clipboard} \cup
                       (IF platform = "win32" /\ outcome = "nonzero"
                        THEN {clipboardWritten(platform, text[i], clipboard)} ELSE {}) :
               execSettles(i, outcome, clip)

\* The promise of ev.action.showOk() resolves: onKeyDown ends.
ShowOkResolves(i) ==
    /\ pc[i] = "showOk"
    /\ pc' = [pc EXCEPT ![i] = "done"]
    /\ result' = [result EXCEPT ![i] = "resolved"]
    /\ UNCHANGED <<platform, settings, now, text, started, exited, clipboard, pasted,
                   okCalls, log, thrown>>
    /\ UNCHANGED <<escVars, fmtVars>>

\* The promise of ev.action.showOk() rejects: onKeyDown's catch block runs.
ShowOkRejects(i) ==
    /\ pc[i] = "showOk"
    /\ LET host == keyDownCatch(<<"Error: ", "showOk failed">>)
       IN  /\ log' = [log EXCEPT ![i] = Append(@, host.entry)]
           /\ result' = [result EXCEPT ![i] = host.result]
    /\ pc' = [pc EXCEPT ![i] = "done"]
    /\ UNCHANGED <<platform, settings, now, text, started, exited, clipboard, pasted,
                   okCalls, thrown>>
    /\ UNCHANGED <<escVars, fmtVars>>

Next ==
    \E i \in Presses :
        \/ KeyDown(i)
        \/ ExecExitsOk(i)
        \/ ExecFails(i)
        \/ ShowOkResolves(i)
        \/ ShowOkRejects(i)

Spec == Init /\ [][Next]_vars


\* ------------------------------------------------------------ the escaping routines alone
\* No key press is under way while a routine is exercised on its own.
ProcOff ==
    /\ platform = "linux"
    /\ settings = [format |-> NoFormat]
    /\ ProcIdle

InitEsc ==
    /\ ProcOff
    /\ escText \in SeqsUpTo(Alphabet, MaxLen)
    /\ EscIdle
    /\ fmtNow = NoDate /\ FmtIdle

\* The Windows branch escapes escText and PowerShell reads the literal.
EscapeForWindows ==
    /\ escOp = "none"
    /\ escOp' = "win32"
    /\ escEscaped' = escapeWindows(escText)
    /\ escValue' = psLiteral(escapeWindows(escText))
    /\ UNCHANGED <<escText, procVars, fmtVars>>

\* The macOS/Linux branch escapes escText and the shell reads the word.
EscapeForPosix ==
    /\ escOp = "none"
    /\ escOp' = "posix"
    /\ escEscaped' = escapePosix(escText)
    /\ escValue' = shWord(escapePosix(escText))
    /\ UNCHANGED <<escText, procVars, fmtVars>>

NextEsc == EscapeForWindows \/ EscapeForPosix

SpecEsc == InitEsc /\ [][NextEsc]_vars

\* ------------------------------------------------------------ the formatter alone
FmtYears == {7, 999, 2024}
FmtMonths == {0, 1, 8, 11}
FmtDays == {1, 9, 29, 31}
FmtHours == {0, 9, 23}
FmtMinutes == {5, 59}
FmtSeconds == {0, 7}
FmtOffsets == {0, 5}

\* The instants given to the formatter: dates of the calendar only.
FmtDates ==
    {d \in [year : FmtYears, month : FmtMonths, date : FmtDays, hours : FmtHours,
            minutes : FmtMinutes, seconds : FmtSeconds, ms : {0},
            utcOffset : FmtOffsets] :
        d.date <= DaysInMonth(d.year, d.month)}

InitFmt ==
    /\ ProcOff
    /\ escText = <<>> /\ EscIdle
    /\ fmtNow \in FmtDates
    /\ FmtIdle

\* getFormattedTimestamp is called at the instant fmtNow.
FormatTimestamp ==
    /\ fmtFormat = "none"
    /\ \E f \in KnownFormats \cup {"default"} :
        /\ fmtFormat' = f
        /\ fmtOut' = getFormattedTimestamp(f, fmtNow)
    /\ UNCHANGED <<fmtNow, procVars, escVars>>

NextFmt == FormatTimestamp

SpecFmt == InitFmt /\ [][NextFmt]_vars

\* ------------------------------------------------------------ properties
Pieces(s) == {s[k] : k \in 1..Len(s)}

\* Every command of press i that has exited, exited without error.
AllOk(i) == \A k \in 1..Len(exited[i]) : exited[i][k].outcome = "ok"
SomeFailed(i) == ~AllOk(i)

\* A command of press i that does role has exited without error.
ExitedOk(i, role) ==
    \E k \in 1..Len(exited[i]) :
        exited[i][k].outcome = "ok" /\ role \in exited[i][k].cmd.does

\* Press i has started a command that sends the paste keystroke alone.
KeystrokeStarted(i) ==
    \E k \in 1..Len(started[i]) : started[i][k].does = {"paste"}

\* The text the clipboard command of press i puts on the clipboard.
WrittenBy(i) == shWord(escapePosix(text[i])).value

\* C1: on every platform showOk is called at most once per key press, only
\* when no external command is running and the clipboard write and the paste
\* keystroke have both exited without error, and exactly once when every
\* command of the press has exited without error.
C1_ShowOkOnceAfterCommands ==
    \A i \in Presses :
        /\ okCalls[i] <= 1
        /\ okCalls[i] >= 1 =>
              /\ ~Running(i)
              /\ AllOk(i)
              /\ ExitedOk(i, "copy")
              /\ ExitedOk(i, "paste")
        /\ (pc[i] \in {"showOk", "done"} /\ AllOk(i)) => okCalls[i] = 1

C1_Witness ==
    \E i \in Presses :
        /\ pc[i] = "done" /\ okCalls[i] = 1
        /\ Len(exited[i]) = 2 /\ AllOk(i)

\* C2: when an external command of a key press fails, showOk is not called
\* for that press, onKeyDown logs the error copyPasteText threw, and the
\* promise of onKeyDown resolves; the promise is never rejected, also when
\* showOk fails.
C2_FailureLoggedNotThrown ==
    \A i \in Presses :
        /\ result[i] # "rejected"
        /\ SomeFailed(i) =>
              /\ okCalls[i] = 0
              /\ result[i] = "resolved"
              /\ Len(thrown[i]) >= 1
              /\ \E k \in 1..Len(log[i]) :
                    /\ log[i][k].level = "error"
                    /\ log[i][k].msg[1] = "Error getting timestamp: "
                    /\ Contains(log[i][k].msg, thrown[i][1])

C2_Witness ==
    \E i \in Presses :
        /\ SomeFailed(i) /\ pc[i] = "done" /\ result[i] = "resolved"
        /\ \E j \in Presses : pc[j] = "done" /\ okCalls[j] = 1

\* C3: on Linux and macOS the keystroke command is started only after the
\* clipboard command has exited without error; when the clipboard command is
\* missing or fails, copyPasteText throws one error whose message names that
\* utility and the keystroke command is not started in that key press.
C3_KeystrokeAfterClipboard ==
    platform \in {"linux", "darwin"} =>
        \A i \in Presses :
            /\ KeystrokeStarted(i) =>
                  /\ Len(exited[i]) >= 1
                  /\ exited[i][1].cmd.does = {"copy"}
                  /\ exited[i][1].outcome = "ok"
            /\ (Len(exited[i]) >= 1 /\ exited[i][1].outcome # "ok") =>
                  /\ exited[i][1].cmd.does = {"copy"}
                  /\ Len(thrown[i]) = 1
                  /\ exited[i][1].cmd.util \in Pieces(thrown[i][1])
                  /\ ~KeystrokeStarted(i)

C3_Witness ==
    /\ platform = "linux"
    /\ pc[1] = "done"
    /\ Len(exited[1]) = 1 /\ exited[1][1].outcome = "notfound"
    /\ exited[1][1].cmd.util = "xclip"

\* C4: in one key press every utility is run at most once, and after a
\* command has failed the press starts no further command.
C4_NoRetries ==
    \A i \in Presses :
        /\ \A k, m \in 1..Len(started[i]) :
              started[i][k].util = started[i][m].util => k = m
        /\ \A k \in 1..Len(exited[i]) :
              exited[i][k].outcome # "ok" => Len(started[i]) = k

C4_Witness ==
    \E i \in Presses :
        /\ pc[i] = "done"
        /\ Len(exited[i]) = 2 /\ exited[i][2].outcome = "nonzero"
        /\ Len(started[i]) = 2

\* C5: when the format of the settings is absent, empty or no known
\* selector, the text handed to copyPasteText is the text of format "short"
\* for the same instant, and copyPasteText is entered: an error is thrown
\* only when an external command fails.
C5_UnknownFormatIsShort ==
    \A i \in Presses :
        (pc[i] # "idle" /\ settings.format \notin KnownFormats) =>
            /\ text[i] = getFormattedTimestamp("short", now[i])
            /\ Len(started[i]) >= 1
            /\ Len(thrown[i]) >= 1 => SomeFailed(i)

C5_Witness ==
    /\ settings.format = "bogus"
    /\ pc[1] = "showOk"
    /\ text[1] = <<"4", "/", "5", "/", "2", "0", "2", "4">>

\* C6: on every platform, when a command fails, copyPasteText throws exactly
\* one error and logs an entry of its own that holds the platform name and
\* the text of the underlying error.
C6_BranchLogsUnderlyingError ==
    \A i \in Presses :
        \A f \in 1..Len(exited[i]) :
            exited[i][f].outcome # "ok" =>
                /\ Len(thrown[i]) = 1
                /\ \E k \in 1..Len(log[i]) :
                      /\ log[i][k].msg[1] # "Error getting timestamp: "
                      /\ platformName(platform) \in Pieces(log[i][k].msg)
                      /\ Contains(log[i][k].msg,
                                  execError(exited[i][f].cmd, exited[i][f].outcome))

\* C7: the Windows-escaped text, between the single quotes of the PowerShell
\* literal, is read back as the original text, the literal ending at the
\* closing quote of the command.
C7_WindowsRoundTrip ==
    escOp = "win32" =>
        /\ escValue.closed = Len(escEscaped) + 1
        /\ escValue.value = escText

\* C8: for a text that holds a double quote, the escaped text between the
\* double quotes of echo -n "..." is read by the shell as one word that ends
\* at the closing quote of the command, with nothing substituted, and whose
\* value is the original text.
C8_PosixRoundTrip ==
    (escOp = "posix" /\ DQ \in Pieces(escText)) =>
        /\ escValue.closed = Len(escEscaped) + 1
        /\ ~escValue.subst
        /\ escValue.value = escText

\* C9: for format "custom" the result is YYYY-MM-DD HH-MM-SS, the year
\* zero-padded to 4 digits, the other fields to 2, the month being the
\* 0-indexed month plus one.
C9_CustomLayout ==
    fmtFormat = "custom" =>
        fmtOut = padStart(String(fmtNow.year), 4, "0") \o <<"-">>
                    \o padStart(String(fmtNow.month + 1), 2, "0") \o <<"-">>
                    \o padStart(String(fmtNow.date), 2, "0") \o <<" ">>
                    \o padStart(String(fmtNow.hours), 2, "0") \o <<"-">>
                    \o padStart(String(fmtNow.minutes), 2, "0") \o <<"-">>
                    \o padStart(String(fmtNow.seconds), 2, "0")

\* C10 as stated: on macOS and Linux every paste keystroke of a key press
\* pastes the text this press wrote to the clipboard.
C10_PastesOwnText ==
    platform \in {"darwin", "linux"} =>
        \A i \in Presses : pasted[i] # None => pasted[i] = WrittenBy(i)

\* C10 amended: on macOS and Linux a paste keystroke of a key press pastes
\* the text this press wrote to the clipboard, or the text written by
\* another press whose clipboard command has exited without error.
C10_PastesOwnOrOverlappingText ==
    platform \in {"darwin", "linux"} =>
        \A i \in Presses :
            pasted[i] # None =>
                \/ pasted[i] = WrittenBy(i)
                \/ \E j \in Presses \ {i} :
                      ExitedOk(j, "copy") /\ pasted[i] = WrittenBy(j)

C10_Witness ==
    /\ platform \in {"darwin", "linux"}
    /\ pasted[1] # None
    /\ pasted[1] = WrittenBy(2)
    /\ pasted[1] # WrittenBy(1)

=============================================================================
